---- MODULE Spec2Model ----
(***************************************************************************)
(* Model of the M-Pesa payment flow of the rental backend: server.js       *)
(* (initiate, status, callback handlers, checkAndUpdatePaymentStatus) and  *)
(* services/mpesa.js (MpesaService).                                       *)
(*                                                                         *)
(* Every handler is an async function.  It runs without interruption up to *)
(* its next await; each awaited statement on the single shared mysql2      *)
(* connection is appended to that connection's command queue (connQueue)   *)
(* and executed in FIFO order.  An Exec... action executes the statement   *)
(* at the head of the queue and then runs the continuation of the handler  *)
(* that issued it, up to that handler's next await.                        *)
(*                                                                         *)
(* A request is modelled from the point where its handler runs: the body   *)
(* is the value express.json() hands over.  A statement that the store     *)
(* fails to execute is modelled for the callback handler, whose answer     *)
(* must not depend on it; the other handlers' statements are executed.     *)
(*                                                                         *)
(* Spec is the payment flow around one initiate request, SpecInitiate and  *)
(* SpecDeferred are overlapping initiate requests (with the deferred       *)
(* checks they arm), SpecToken is MpesaService.getAccessToken under        *)
(* concurrent calls, SpecPhone and SpecPush are single calls of            *)
(* formatPhoneNumber and initiatePayment.  SpecShared is overlapping        *)
(* initiate requests with the callbacks of their payments, SpecLandlord is *)
(* one payment with the landlord's PUT /api/payments/:id, SpecAccounts is  *)
(* the register, add-tenant and remove-tenant routes, one request at a     *)
(* time.  SpecLive and SpecTokenLive add the fairness of the timers, the   *)
(* connection and the gateway's replies.                                   *)
(***************************************************************************)
EXTENDS Integers, Sequences, FiniteSets, TLC

\* ---------------------------------------------------------------- bounds
MaxInitiate == 2     \* initiate requests per behaviour
MaxCallback == 2     \* callback deliveries per behaviour
MaxStatus   == 1     \* GET status requests per behaviour
MaxFlowInitiate == 1 \* initiate requests where callbacks and checks run too
MaxTokenCalls == 3   \* getAccessToken calls per behaviour
MaxPut == 1          \* PUT /api/payments/:id requests per behaviour
MaxAccountCalls == 3 \* register, add-tenant and remove-tenant requests per behaviour
MaxNow == 13         \* the clock stops after 65 minutes

\* ------------------------------------------------------- text and values
UNDEF == "undefined"         \* a JS undefined scalar
NULL  == "NULL"              \* SQL NULL
STAR  == 10                  \* the character '*' in a text
PLUS  == 11                  \* a non-digit character such as '+'
UndefText == <<-1>>          \* a JS undefined where a text is expected
Stars == <<STAR, STAR, STAR>>

Min(a, b) == IF a < b THEN a ELSE b

\* String.prototype.substring(0, n)
Substring0(s, n) == SubSeq(s, 1, Min(n, Len(s)))

\* String.prototype.startsWith
StartsWith(s, p) == Len(s) >= Len(p) /\ SubSeq(s, 1, Len(p)) = p

IsDigit(c) == c \in 0..9

\* phone.replace(/\D/g, '')
StripNonDigits(s) == SelectSeq(s, IsDigit)

\* formattedPhone.substring(0, 6) + '***'
MaskPhone(p) == Substring0(p, 6) \o Stars

formatPhoneNumber_NoLengthCheck(phone) ==
  LET stripped == StripNonDigits(phone)
  IN IF StartsWith(stripped, <<0>>)
       THEN [ok |-> TRUE, value |-> <<2, 5, 4>> \o SubSeq(stripped, 2, Len(stripped)),
             error |-> ""]
     ELSE IF StartsWith(stripped, <<7>>) \/ StartsWith(stripped, <<1>>)
       THEN [ok |-> TRUE, value |-> <<2, 5, 4>> \o stripped, error |-> ""]
     ELSE IF StartsWith(stripped, <<2, 5, 4>>)
       THEN [ok |-> TRUE, value |-> stripped, error |-> ""]
     ELSE [ok |-> FALSE, value |-> <<>>, error |-> "Invalid phone number format"]

formatPhoneNumber_LocalOnly(phone) ==
  LET stripped == StripNonDigits(phone)
      formatted ==
        IF StartsWith(stripped, <<0>>) THEN <<2, 5, 4>> \o SubSeq(stripped, 2, Len(stripped))
        ELSE <<2, 5, 4>> \o stripped
      badPrefix == /\ ~StartsWith(stripped, <<0>>)
                   /\ ~StartsWith(stripped, <<7>>)
                   /\ ~StartsWith(stripped, <<1>>)
  IN IF badPrefix
       THEN [ok |-> FALSE, value |-> <<>>, error |-> "Invalid phone number format"]
     ELSE IF Len(formatted) # 12
       THEN [ok |-> FALSE, value |-> <<>>,
             error |-> "Phone number must be 12 digits in 254XXXXXXXXX format"]
     ELSE [ok |-> TRUE, value |-> formatted, error |-> ""]

\* MpesaService.formatPhoneNumber: [ok |-> TRUE, value |-> digits] or a throw
formatPhoneNumber(phone) ==
  LET stripped == StripNonDigits(phone)
      formatted ==
        IF StartsWith(stripped, <<0>>) THEN <<2, 5, 4>> \o SubSeq(stripped, 2, Len(stripped))
        ELSE IF StartsWith(stripped, <<7>>) \/ StartsWith(stripped, <<1>>)
             THEN <<2, 5, 4>> \o stripped
        ELSE stripped
      badPrefix == /\ ~StartsWith(stripped, <<0>>)
                   /\ ~StartsWith(stripped, <<7>>)
                   /\ ~StartsWith(stripped, <<1>>)
                   /\ ~StartsWith(stripped, <<2, 5, 4>>)
  IN IF badPrefix
       THEN [ok |-> FALSE, value |-> <<>>, error |-> "Invalid phone number format"]
     ELSE IF Len(formatted) # 12
       THEN [ok |-> FALSE, value |-> <<>>,
             error |-> "Phone number must be 12 digits in 254XXXXXXXXX format"]
     ELSE [ok |-> TRUE, value |-> formatted, error |-> ""]

\* ------------------------------------------------------- request inputs
\* req.body.amount: undefined, a non-numeric string, or a number given in
\* tenths of a shilling (15 is 1.5)
AmountUndefined == [kind |-> "undefined", tenths |-> 0]
AmountNaN       == [kind |-> "nan", tenths |-> 0]
Num(t)          == [kind |-> "num", tenths |-> t]

\* !amount
AmountFalsy(a) == a.kind = "undefined" \/ (a.kind = "num" /\ a.tenths = 0)

\* isNaN(Math.floor(Number(amount)))
AmountIsNaN(a) == a.kind # "num"

\* Math.floor(Number(amount))
FloorAmount(a) == a.tenths \div 10

Phone0712 == <<0, 7, 1, 2, 3, 4, 5, 6, 7, 8>>
Phone254  == <<PLUS, 2, 5, 4, 7, 1, 2, 3, 4, 5, 6, 7, 8>>
PhoneShort == <<0, 7, 1, 2>>
PhoneBadPrefix == <<8, 1, 2, 3, 4, 5, 6, 7, 8>>
PhoneMissing == <<>>          \* undefined or '' : !phone

\* users behind authenticateToken; the tenants table row of each (0: none)
Users == {"tenantUser", "otherUser"}
TenantOf(u) == IF u = "tenantUser" THEN 1 ELSE 0
PropertyOf(t) == 1

Body(u, a, p) == [user |-> u, amount |-> a, phone |-> p]

\* the request bodies tried: two valid ones and one for each way to be invalid
InitiateInputs ==
  { Body("tenantUser", Num(15), Phone0712),
    Body("tenantUser", Num(5000009), Phone254),
    Body("tenantUser", Num(5000000), Phone0712),
    Body("otherUser", Num(15), Phone0712),
    Body("tenantUser", AmountUndefined, Phone0712),
    Body("tenantUser", Num(0), Phone0712),
    Body("tenantUser", AmountNaN, Phone0712),
    Body("tenantUser", Num(5), Phone0712),
    Body("tenantUser", Num(5000010), Phone0712),
    Body("tenantUser", Num(15), PhoneMissing),
    Body("tenantUser", Num(15), PhoneShort),
    Body("tenantUser", Num(15), PhoneBadPrefix) }

\* the bodies tried around the callbacks and checks: a valid and an invalid one
FlowInputs ==
  { Body("tenantUser", Num(15), Phone0712),
    Body("tenantUser", Num(0), Phone0712) }

\* ------------------------------------------------------------ payments
\* the notes column: a JSON object (a key JSON.stringify drops is UNDEF),
\* or one of the two plain texts the handlers write
JsonNotes ==
  [form |-> "json", merchantRequestId |-> UNDEF, checkoutRequestId |-> UNDEF,
   responseCode |-> UNDEF, phoneNumber |-> UndefText, mpesaReceiptNumber |-> UNDEF,
   transactionDate |-> UNDEF, balance |-> UNDEF, resultCode |-> UNDEF,
   resultDesc |-> UNDEF]

\* `STK Push to ${formattedPhone.substring(0, 6)}***`
StkPushNotes(formattedPhone) ==
  [JsonNotes EXCEPT !.form = "STK Push to", !.phoneNumber = MaskPhone(formattedPhone)]

\* `Error ${ResultCode}: ${ResultDesc}`
ErrorNotes(st) ==
  [JsonNotes EXCEPT !.form = "Error", !.resultCode = st.ResultCode,
                    !.resultDesc = st.ResultDesc]

\* the JSON written by initiate after the push (initiatedAt, a wall-clock
\* time, is not modelled)
InitiatedNotes(mpesaResponse, formattedPhone) ==
  [JsonNotes EXCEPT !.merchantRequestId = mpesaResponse.MerchantRequestID,
                    !.checkoutRequestId = mpesaResponse.CheckoutRequestID,
                    !.responseCode = mpesaResponse.ResponseCode,
                    !.phoneNumber = MaskPhone(formattedPhone)]

\* the row inserted by initiate
NewPayment(tenantId, wholeAmount, formattedPhone) ==
  [tenant_id |-> tenantId, property_id |-> PropertyOf(tenantId),
   amount |-> wholeAmount, payment_method |-> "mpesa",
   payment_status |-> "pending", reference_number |-> NULL,
   notes |-> StkPushNotes(formattedPhone)]

\* ids the gateway hands out, in order of issue
CheckoutIds == <<"ws_CO_1", "ws_CO_2", "ws_CO_3", "ws_CO_4">>
MerchantIds == <<"mr_1", "mr_2", "mr_3", "mr_4">>
UnknownCheckoutId == "ws_CO_unknown"

NoMpesaResponse ==
  [MerchantRequestID |-> UNDEF, CheckoutRequestID |-> UNDEF, ResponseCode |-> UNDEF]

\* initiatePayment threw: no response, no push accepted
NoPush == [ok |-> FALSE, response |-> NoMpesaResponse, sentAmount |-> 0]

NoRes == [code |-> 0]

\* -------------------------------------------------------- access token
NoToken == 0                 \* this.accessToken = null
NoExpiry == -1               \* this.tokenExpiry = null
SafetyMargin == 1            \* 300000 ms
SandboxLifetime == 12        \* 3600000 ms
\* response.data.expires_in of the gateway, in units of 5 minutes
Lifetimes == {1, 3}

\* ---------------------------------------------------------------- state
VARIABLES
  environment,   \* mpesaConfig.environment
  payments,      \* the payments table as the connection sees it: id -> row
  txOpen,        \* the connection has an open transaction
  txSnapshot,    \* the table as it was when that transaction began
  nextId,        \* AUTO_INCREMENT of payments.id
  nextCheckout,  \* number of CheckoutRequestIDs the gateway has issued
  handlers,      \* the requests and timer callbacks started so far
  connQueue,     \* handlers whose statement waits on the connection, FIFO
  timers,        \* armed setTimeout callbacks of initiate
  resolutions,   \* history: id -> the resolving UPDATEs executed on it
  accessToken,   \* MpesaService.accessToken: NoToken, or the n-th token issued
  tokenExpiry,   \* MpesaService.tokenExpiry: NoExpiry, or a time
  tokenRefreshInProgress,   \* MpesaService.tokenRefreshInProgress
  tokensIssued,  \* number of tokens generated or granted so far
  now,           \* the clock, in units of 5 minutes
  tokenCalls,    \* the getAccessToken calls made so far
  phoneCall,     \* a call of formatPhoneNumber: argument, and result once made
  pushCall,      \* a call of initiatePayment: argument, and result once made
  users,         \* the users table: rows [id, email, role]
  tenants,       \* the tenants table: rows [id, user_id, property_id]
  properties,    \* the properties table: id -> [status, landlord_id]
  nextUserId,    \* AUTO_INCREMENT of users.id
  nextTenantId,  \* AUTO_INCREMENT of tenants.id
  answers        \* the answers of the account routes, in order

paymentVars == <<environment, payments, txOpen, txSnapshot, nextId, nextCheckout,
                 handlers, connQueue, timers, resolutions>>

tokenVars == <<accessToken, tokenExpiry, tokenRefreshInProgress, tokensIssued,
               now, tokenCalls>>

callVars == <<phoneCall, pushCall>>

accountVars == <<users, tenants, properties, nextUserId, nextTenantId, answers>>

vars == <<paymentVars, tokenVars, callVars, accountVars>>

HandlerIds == 1..Len(handlers)
OfKind(k) == {h \in HandlerIds : handlers[h].kind = k}

\* the database the requests start from: two landlords, the properties of
\* the first one, and the tenant of the payment requests on property 1
LandlordEmail == "landlord@kenco"
TenantEmail == "tenant@kenco"
OtherLandlordEmail == "other@kenco"
InitialUsers ==
  { [id |-> 1, email |-> LandlordEmail, role |-> "landlord"],
    [id |-> 2, email |-> TenantEmail, role |-> "tenant"],
    [id |-> 3, email |-> OtherLandlordEmail, role |-> "landlord"] }
InitialTenants == { [id |-> 1, user_id |-> 2, property_id |-> 1] }
InitialProperties ==
  <<[status |-> "occupied", landlord_id |-> 1],
    [status |-> "available", landlord_id |-> 1]>>

\* the server and the MpesaService after construction
InitServer ==
  /\ environment \in {"sandbox", "production"}
  /\ payments = <<>>
  /\ txOpen = FALSE
  /\ txSnapshot = <<>>
  /\ nextId = 1
  /\ nextCheckout = 0
  /\ handlers = <<>>
  /\ connQueue = <<>>
  /\ timers = {}
  /\ resolutions = <<>>
  /\ accessToken = NoToken
  /\ tokenExpiry = NoExpiry
  /\ tokenRefreshInProgress = FALSE
  /\ tokensIssued = 0
  /\ now = 0
  /\ tokenCalls = <<>>
  /\ users = InitialUsers
  /\ tenants = InitialTenants
  /\ properties = InitialProperties
  /\ nextUserId = 4
  /\ nextTenantId = 2
  /\ answers = <<>>

NoPhoneCall ==
  [phone |-> <<>>, done |-> TRUE, result |-> formatPhoneNumber(<<>>),
   againDone |-> TRUE, again |-> formatPhoneNumber(<<>>)]
NoPushCall == [amount |-> Num(0), accepted |-> FALSE, done |-> TRUE, result |-> NoPush]

Init ==
  /\ InitServer
  /\ phoneCall = NoPhoneCall
  /\ pushCall = NoPushCall

\* the handler's statement is the next one the connection executes
AtHead(h, pc) ==
  /\ connQueue # <<>>
  /\ Head(connQueue) = h
  /\ handlers[h].pc = pc

\* the statement is done and the handler issues its next one
Requeue(h) == connQueue' = Append(Tail(connQueue), h)
\* the statement is done and the handler issues no other
Dequeue == connQueue' = Tail(connQueue)

\* ------------------------------------------ POST /api/payments/mpesa/initiate
InitiateRes(code, message) ==
  [code |-> code, message |-> message, paymentId |-> 0,
   checkoutRequestId |-> UNDEF, phone |-> UndefText]

ValidateInitiate_NoCeiling(amount, phone) ==
  IF AmountFalsy(amount) \/ phone = PhoneMissing
    THEN "Amount and phone number are required"
  ELSE IF AmountIsNaN(amount) \/ FloorAmount(amount) < 1
    THEN "Amount must be between KES 1 and KES 500,000"
  ELSE IF ~formatPhoneNumber(phone).ok
    THEN "Invalid phone number"
  ELSE "ok"

ValidateInitiate_CeilingExclusive(amount, phone) ==
  IF AmountFalsy(amount) \/ phone = PhoneMissing
    THEN "Amount and phone number are required"
  ELSE IF AmountIsNaN(amount) \/ FloorAmount(amount) < 1 \/ FloorAmount(amount) >= 500000
    THEN "Amount must be between KES 1 and KES 500,000"
  ELSE IF ~formatPhoneNumber(phone).ok
    THEN "Invalid phone number"
  ELSE "ok"

\* the validation at the top of the handler: "ok" or the 400 message
ValidateInitiate(amount, phone) ==
  IF AmountFalsy(amount) \/ phone = PhoneMissing
    THEN "Amount and phone number are required"
  ELSE IF AmountIsNaN(amount) \/ FloorAmount(amount) < 1 \/ FloorAmount(amount) > 500000
    THEN "Amount must be between KES 1 and KES 500,000"
  ELSE IF ~formatPhoneNumber(phone).ok
    THEN "Invalid phone number"
  ELSE "ok"

\* the request arrives: validation, then SELECT ... FROM tenants is issued
InitiateRequest(body) ==
  LET v == ValidateInitiate(body.amount, body.phone)
      h == Len(handlers) + 1
      hd == [kind |-> "initiate", pc |-> "tenant", user |-> body.user,
             amount |-> body.amount, phone |-> body.phone,
             wholeAmount |-> 0, formattedPhone |-> <<>>, tenantId |-> 0,
             paymentId |-> 0, mpesaResponse |-> NoMpesaResponse,
             pushedAmount |-> 0,
             began |-> FALSE, gatewayCalled |-> FALSE, armed |-> FALSE,
             res |-> NoRes]
  IN /\ Cardinality(OfKind("initiate")) < MaxInitiate
     /\ IF v # "ok"
          THEN /\ handlers' = Append(handlers,
                      [hd EXCEPT !.pc = "done", !.res = InitiateRes(400, v)])
               /\ UNCHANGED connQueue
          ELSE /\ handlers' = Append(handlers,
                      [hd EXCEPT !.wholeAmount = FloorAmount(body.amount),
                                 !.formattedPhone = formatPhoneNumber(body.phone).value])
               /\ connQueue' = Append(connQueue, h)
     /\ UNCHANGED <<accountVars, callVars, tokenVars, environment, payments, txOpen, txSnapshot, nextId,
                    nextCheckout, timers, resolutions>>

\* SELECT id, property_id FROM tenants WHERE user_id = ?
ExecTenantSelect(h) ==
  /\ AtHead(h, "tenant")
  /\ IF TenantOf(handlers[h].user) = 0
       THEN /\ handlers' = [handlers EXCEPT ![h].pc = "done",
                   ![h].res = InitiateRes(400, "No active tenancy found")]
            /\ Dequeue
       ELSE /\ handlers' = [handlers EXCEPT ![h].pc = "begin",
                   ![h].tenantId = TenantOf(handlers[h].user), ![h].began = TRUE]
            /\ Requeue(h)
  /\ UNCHANGED <<accountVars, callVars, tokenVars, environment, payments, txOpen, txSnapshot, nextId,
                 nextCheckout, timers, resolutions>>

\* connection.beginTransaction(): START TRANSACTION commits a transaction
\* that is open on the connection and opens a new one
ExecBeginTransaction(h) ==
  /\ AtHead(h, "begin")
  /\ txOpen' = TRUE
  /\ txSnapshot' = payments
  /\ handlers' = [handlers EXCEPT ![h].pc = "insert"]
  /\ Requeue(h)
  /\ UNCHANGED <<accountVars, callVars, tokenVars, environment, payments, nextId, nextCheckout, timers, resolutions>>

\* MpesaService.initiatePayment: the checks made before the push is sent
\* (formatPhoneNumber, Math.floor(amount) < 1); accepted is what the gateway
\* (or the sandbox's shouldFail draw, or getAccessToken) then decides;
\* sentAmount is the Amount of the push that was accepted
initiatePayment(phone, amount, accepted, n) ==
  IF ~formatPhoneNumber(phone).ok \/ FloorAmount(amount) < 1 \/ ~accepted
    THEN NoPush
    ELSE [ok |-> TRUE,
          response |-> [MerchantRequestID |-> MerchantIds[n],
                        CheckoutRequestID |-> CheckoutIds[n],
                        ResponseCode |-> "0"],
          sentAmount |-> FloorAmount(amount)]

\* the handler after initiatePayment has settled: UPDATE on success,
\* ROLLBACK (the inner catch) on a throw
AfterPush(h, withId, accepted) ==
  LET r == initiatePayment(withId[h].formattedPhone,
                           Num(10 * withId[h].wholeAmount),
                           accepted, nextCheckout + 1)
  IN /\ handlers' = [withId EXCEPT
                       ![h].pc = IF r.ok THEN "update" ELSE "rollback",
                       ![h].mpesaResponse = r.response,
                       ![h].pushedAmount = r.sentAmount,
                       ![h].gatewayCalled = TRUE]
     /\ nextCheckout' = IF r.ok THEN nextCheckout + 1 ELSE nextCheckout

\* INSERT INTO payments ... 'pending'; then the push: the sandbox settles it
\* without a real await, production waits for the HTTP reply
ExecInsert(h) ==
  /\ AtHead(h, "insert")
  /\ payments' = payments @@
        (nextId :> NewPayment(handlers[h].tenantId, handlers[h].wholeAmount,
                              handlers[h].formattedPhone))
  /\ nextId' = nextId + 1
  /\ LET withId == [handlers EXCEPT ![h].paymentId = nextId]
     IN IF environment = "sandbox"
          THEN /\ \E accepted \in BOOLEAN : AfterPush(h, withId, accepted)
               /\ Requeue(h)
          ELSE /\ handlers' = [withId EXCEPT ![h].pc = "push",
                                              ![h].gatewayCalled = TRUE]
               /\ Dequeue
               /\ UNCHANGED nextCheckout
  /\ UNCHANGED <<accountVars, callVars, tokenVars, environment, txOpen, txSnapshot, timers, resolutions>>

\* production: the gateway's reply to the push (or its failure) arrives
GatewayReply(h, accepted) ==
  /\ h \in OfKind("initiate")
  /\ handlers[h].pc = "push"
  /\ AfterPush(h, handlers, accepted)
  /\ connQueue' = Append(connQueue, h)
  /\ UNCHANGED <<accountVars, callVars, tokenVars, environment, payments, txOpen, txSnapshot, nextId, timers,
                 resolutions>>

\* UPDATE payments SET reference_number = ?, notes = ? WHERE id = ?
ExecInitiateUpdate(h) ==
  LET id == handlers[h].paymentId
  IN /\ AtHead(h, "update")
     /\ handlers[h].kind = "initiate"
     /\ payments' =
          IF id \in DOMAIN payments
            THEN [payments EXCEPT
                    ![id].reference_number = handlers[h].mpesaResponse.CheckoutRequestID,
                    ![id].notes = InitiatedNotes(handlers[h].mpesaResponse,
                                                 handlers[h].formattedPhone)]
            ELSE payments
     /\ handlers' = [handlers EXCEPT ![h].pc = "commit"]
     /\ Requeue(h)
     /\ UNCHANGED <<accountVars, callVars, tokenVars, environment, txOpen, txSnapshot, nextId, nextCheckout,
                    timers, resolutions>>

ArmDeferredCheck_AnyEnvironment(env, armedTimers, t) == armedTimers \cup {t}

\* if (mpesaConfig.environment === 'sandbox') setTimeout(..., 30000)
ArmDeferredCheck(env, armedTimers, t) ==
  IF env = "sandbox" THEN armedTimers \cup {t} ELSE armedTimers

\* connection.commit(); then the sandbox arms the deferred check and the
\* handler answers 201
ExecCommit(h) ==
  LET r == handlers[h].mpesaResponse
  IN /\ AtHead(h, "commit")
     /\ txOpen' = FALSE
     /\ timers' = ArmDeferredCheck(environment, timers,
                      [checkoutRequestId |-> r.CheckoutRequestID,
                       paymentId |-> handlers[h].paymentId])
     /\ handlers' = [handlers EXCEPT ![h].pc = "done",
          ![h].armed = (environment = "sandbox"),
          ![h].res = [code |-> 201, message |-> "M-Pesa payment initiated successfully",
                      paymentId |-> handlers[h].paymentId,
                      checkoutRequestId |-> r.CheckoutRequestID,
                      phone |-> MaskPhone(handlers[h].formattedPhone)]]
     /\ Dequeue
     /\ UNCHANGED <<accountVars, callVars, tokenVars, environment, payments, txSnapshot, nextId, nextCheckout,
                    resolutions>>

\* what connection.rollback() leaves of the table: the state at the start
\* of the open transaction, or the table untouched when none is open
RolledBack(table, open, snapshot) == IF open THEN snapshot ELSE table

\* connection.rollback() in the inner catch; the rethrown error is answered
\* with 500 by the outer catch
ExecRollback(h) ==
  /\ AtHead(h, "rollback")
  /\ payments' = RolledBack(payments, txOpen, txSnapshot)
  /\ txOpen' = FALSE
  /\ handlers' = [handlers EXCEPT ![h].pc = "done",
       ![h].res = InitiateRes(500, "Failed to initiate payment")]
  /\ Dequeue
  /\ UNCHANGED <<accountVars, callVars, tokenVars, environment, txSnapshot, nextId, nextCheckout, timers,
                 resolutions>>

\* ------------------------------------------------------- gateway results
\* the metadata of a successful payment: the receipts drawn, and one value
\* each for the settlement time, the payer's phone and the balance
Receipts == {"ABC123"}
SettledAt == "20250101120000"
PayerPhone == <<2, 5, 4, 7, 0, 8, 3, 7, 4, 1, 4, 9>>
BalanceAfter == "1000"

\* ResultCode.toString()
ResultCodeString(c) ==
  CASE c = 0 -> "0" [] c = 1 -> "1" [] c = 17 -> "17" [] c = 1032 -> "1032"
    [] c = 1037 -> "1037" [] c = 2001 -> "2001"

\* the description that goes with a code
ResultDescOf(c) ==
  CASE c = 0 -> "The service request is processed successfully."
    [] c = 1 -> "Insufficient funds in the utility account"
    [] c = 17 -> "User has cancelled the transaction"
    [] c = 1032 -> "Request canceled by user"
    [] c = 1037 -> "DS timeout user cannot be reached"
    [] c = 2001 -> "Wrong PIN entered"

\* the codes drawn: success, and one decline standing for the five declines
ResultCodes == {0, 1032}

StatusBase(merchantRequestId, checkoutRequestId, code) ==
  [MerchantRequestID |-> merchantRequestId, CheckoutRequestID |-> checkoutRequestId,
   ResultCode |-> ResultCodeString(code), ResultDesc |-> ResultDescOf(code),
   MpesaReceiptNumber |-> UNDEF, TransactionDate |-> UNDEF,
   PhoneNumber |-> UndefText, Balance |-> UNDEF]

WithMetadata(st, receipt, date, phone, balance) ==
  [st EXCEPT !.MpesaReceiptNumber = receipt, !.TransactionDate = date,
             !.PhoneNumber = phone, !.Balance = balance]

\* no StatusResult: the call threw, or has not been made
NoStatus ==
  [MerchantRequestID |-> UNDEF, CheckoutRequestID |-> UNDEF,
   ResultCode |-> UNDEF, ResultDesc |-> UNDEF,
   MpesaReceiptNumber |-> UNDEF, TransactionDate |-> UNDEF,
   PhoneNumber |-> UndefText, Balance |-> UNDEF]

\* MpesaService.checkPaymentStatus: the sandbox draws a result (code,
\* receipt); production throws
checkPaymentStatus(env, checkoutRequestId, code, receipt) ==
  IF env = "sandbox"
    THEN [ok |-> TRUE,
          status |-> IF code = 0
                       THEN WithMetadata(StatusBase("mr_poll", checkoutRequestId, code),
                                         receipt, SettledAt, PayerPhone, BalanceAfter)
                       ELSE StatusBase("mr_poll", checkoutRequestId, code)]
    ELSE [ok |-> FALSE, status |-> NoStatus]

\* a callback payload: Body.stkCallback present or not, CallbackMetadata.Item
\* present or not
Payload(present, checkoutRequestId, code, metadata, receipt) ==
  [stkCallback |-> present, MerchantRequestID |-> "mr_cb",
   CheckoutRequestID |-> checkoutRequestId, ResultCode |-> code,
   ResultDesc |-> ResultDescOf(code), metadata |-> metadata,
   MpesaReceiptNumber |-> receipt, TransactionDate |-> SettledAt,
   PhoneNumber |-> PayerPhone, Balance |-> BalanceAfter]

processCallback_NoStructureCheck(callbackData) ==
  [ok |-> TRUE,
   status |-> StatusBase(callbackData.MerchantRequestID,
                         callbackData.CheckoutRequestID, callbackData.ResultCode)]

\* MpesaService.processCallback
processCallback(callbackData) ==
  IF ~callbackData.stkCallback
    THEN [ok |-> FALSE, status |-> NoStatus]
    ELSE LET base == StatusBase(callbackData.MerchantRequestID,
                                callbackData.CheckoutRequestID,
                                callbackData.ResultCode)
         IN [ok |-> TRUE,
             status |-> IF callbackData.ResultCode = 0 /\ callbackData.metadata
                          THEN WithMetadata(base, callbackData.MpesaReceiptNumber,
                                 callbackData.TransactionDate,
                                 callbackData.PhoneNumber, callbackData.Balance)
                          ELSE base]

\* ---------------------------------------------------- resolving UPDATEs
\* the callback handler's notes for a successful payment
CallbackCompletedNotes(st) ==
  [JsonNotes EXCEPT !.mpesaReceiptNumber = st.MpesaReceiptNumber,
                    !.transactionDate = st.TransactionDate,
                    !.phoneNumber = st.PhoneNumber,
                    !.balance = st.Balance,
                    !.merchantRequestId = st.MerchantRequestID]

\* checkAndUpdatePaymentStatus's notes for a successful payment
PollCompletedNotes(st, checkoutRequestId) ==
  [JsonNotes EXCEPT !.mpesaReceiptNumber = st.MpesaReceiptNumber,
                    !.transactionDate = st.TransactionDate,
                    !.phoneNumber = st.PhoneNumber,
                    !.checkoutRequestId = checkoutRequestId]

\* a || b
OrElse(a, b) == IF a = UNDEF THEN b ELSE a

\* the row after the callback handler's UPDATE ... WHERE id = ?
CallbackUpdate(row, st) ==
  IF st.ResultCode = "0"
    THEN [row EXCEPT !.payment_status = "completed",
                     !.reference_number = st.MpesaReceiptNumber,
                     !.notes = CallbackCompletedNotes(st)]
    ELSE [row EXCEPT !.payment_status = "failed", !.notes = ErrorNotes(st)]

\* the row after checkAndUpdatePaymentStatus's UPDATE ... WHERE id = ?
PollUpdate(row, st, checkoutRequestId) ==
  IF st.ResultCode = "0"
    THEN [row EXCEPT !.payment_status = "completed",
                     !.reference_number = OrElse(st.MpesaReceiptNumber, checkoutRequestId),
                     !.notes = PollCompletedNotes(st, checkoutRequestId)]
    ELSE [row EXCEPT !.payment_status = "failed", !.notes = ErrorNotes(st)]

\* the history of resolving UPDATEs on payment id, extended by one
Resolved(id, via, h, st, before, after) ==
  LET entry == [via |-> via, handler |-> h, status |-> st, before |-> before,
                after |-> after]
  IN IF id \in DOMAIN resolutions
       THEN [resolutions EXCEPT ![id] = Append(@, entry)]
       ELSE resolutions @@ (id :> <<entry>>)

\* ----------------------------------------- POST /api/payments/mpesa/callback
Accepted == [code |-> 200, ResultCode |-> 0, ResultDesc |-> "Accepted"]

\* the handler's answer at the end of the try block
CallbackResponse == Accepted
CallbackErrorResponse_Status500 ==
  [code |-> 500, ResultCode |-> 1, ResultDesc |-> "Failed"]

\* the handler's answer in its catch block
CallbackErrorResponse == Accepted

SelectByReference_OrNull(table, ref) ==
  {id \in DOMAIN table : table[id].reference_number \in {ref, NULL}}

\* SELECT * FROM payments WHERE reference_number = ?
SelectByReference(table, ref) ==
  {id \in DOMAIN table : table[id].reference_number = ref}

\* payments[0]
FirstOf(ids) == CHOOSE id \in ids : \A other \in ids : id <= other

\* connection.execute rejects a bind parameter that is undefined
BindRejected(params) == \E i \in 1..Len(params) : params[i] = UNDEF

\* the request arrives: processCallback, then the lookup is issued
CallbackRequest(payload) ==
  LET r == processCallback(payload)
      h == Len(handlers) + 1
      hd == [kind |-> "callback", pc |-> "lookup", payload |-> payload,
             paymentStatus |-> r.status, paymentId |-> 0, found |-> FALSE,
             foundStatus |-> UNDEF, storeFailed |-> FALSE, res |-> NoRes]
  IN /\ Cardinality(OfKind("callback")) < MaxCallback
     /\ IF r.ok
          THEN /\ handlers' = Append(handlers, hd)
               /\ connQueue' = Append(connQueue, h)
          ELSE /\ handlers' = Append(handlers,
                      [hd EXCEPT !.pc = "done", !.res = CallbackErrorResponse])
               /\ UNCHANGED connQueue
     /\ UNCHANGED <<accountVars, callVars, tokenVars, environment, payments, txOpen, txSnapshot, nextId,
                    nextCheckout, timers, resolutions>>

\* the lookup by reference_number; when a payment is found its UPDATE is
\* issued, unless connection.execute rejects the parameters
ExecCallbackSelect(h, storeOk) ==
  LET st == handlers[h].paymentStatus
      ids == SelectByReference(payments, st.CheckoutRequestID)
      id == FirstOf(ids)
  IN /\ AtHead(h, "lookup")
     /\ IF ~storeOk
          THEN /\ handlers' = [handlers EXCEPT ![h].pc = "done",
                      ![h].storeFailed = TRUE, ![h].res = CallbackErrorResponse]
               /\ Dequeue
        ELSE IF ids = {}
          THEN /\ handlers' = [handlers EXCEPT ![h].pc = "done",
                      ![h].res = CallbackResponse]
               /\ Dequeue
        ELSE IF st.ResultCode = "0" /\ BindRejected(<<st.MpesaReceiptNumber>>)
          THEN /\ handlers' = [handlers EXCEPT ![h].pc = "done",
                      ![h].paymentId = id, ![h].found = TRUE,
                      ![h].foundStatus = payments[id].payment_status,
                      ![h].res = CallbackErrorResponse]
               /\ Dequeue
        ELSE /\ handlers' = [handlers EXCEPT ![h].pc = "update",
                    ![h].paymentId = id, ![h].found = TRUE,
                    ![h].foundStatus = payments[id].payment_status]
             /\ Requeue(h)
     /\ UNCHANGED <<accountVars, callVars, tokenVars, environment, payments, txOpen, txSnapshot, nextId,
                    nextCheckout, timers, resolutions>>

\* UPDATE payments SET payment_status = ... WHERE id = ?, then the answer
ExecCallbackUpdate(h, storeOk) ==
  LET st == handlers[h].paymentStatus
      id == handlers[h].paymentId
  IN /\ AtHead(h, "update")
     /\ handlers[h].kind = "callback"
     /\ IF storeOk /\ id \in DOMAIN payments
          THEN /\ payments' = [payments EXCEPT ![id] = CallbackUpdate(@, st)]
               /\ resolutions' = Resolved(id, "callback", h, st, payments[id], payments'[id])
          ELSE UNCHANGED <<payments, resolutions>>
     /\ handlers' = [handlers EXCEPT ![h].pc = "done",
          ![h].storeFailed = ~storeOk,
          ![h].res = IF storeOk THEN CallbackResponse ELSE CallbackErrorResponse]
     /\ Dequeue
     /\ UNCHANGED <<accountVars, callVars, tokenVars, environment, txOpen, txSnapshot, nextId, nextCheckout, timers>>

\* ------------------------------------------- checkAndUpdatePaymentStatus
NoRow == [tenant_id |-> 0]

\* the setTimeout callback armed by initiate fires: checkPaymentStatus
\* settles (the sandbox has no real await) and the UPDATE is issued
TimerFire(t, code, receipt) ==
  LET r == checkPaymentStatus(environment, t.checkoutRequestId, code, receipt)
      h == Len(handlers) + 1
      hd == [kind |-> "deferred", pc |-> IF r.ok THEN "update" ELSE "done",
             checkoutRequestId |-> t.checkoutRequestId, paymentId |-> t.paymentId,
             mpesaStatus |-> r.status,
             firedStatus |-> IF t.paymentId \in DOMAIN payments
                               THEN payments[t.paymentId].payment_status
                               ELSE UNDEF,
             checkFailed |-> FALSE, res |-> NoRes]
  IN /\ t \in timers
     /\ timers' = timers \ {t}
     /\ handlers' = Append(handlers, hd)
     /\ connQueue' = IF r.ok THEN Append(connQueue, h) ELSE connQueue
     /\ UNCHANGED <<accountVars, callVars, tokenVars, environment, payments, txOpen, txSnapshot, nextId,
                    nextCheckout, resolutions>>

\* ------------------------------ GET /api/payments/mpesa/status/:paymentId
UserOf(tenantId) == "tenantUser"

StatusRes(row) ==
  [code |-> 200, status |-> row.payment_status,
   reference |-> row.reference_number, notes |-> row.notes]

\* the request arrives and the SELECT ... JOIN tenants is issued
StatusRequest(user, paymentId) ==
  /\ Cardinality(OfKind("status")) < MaxStatus
  /\ handlers' = Append(handlers,
        [kind |-> "status", pc |-> "select", user |-> user,
         paymentId |-> paymentId, checkoutRequestId |-> UNDEF, payment |-> NoRow,
         mpesaStatus |-> NoStatus, res |-> NoRes])
  /\ connQueue' = Append(connQueue, Len(handlers) + 1)
  /\ UNCHANGED <<accountVars, callVars, tokenVars, environment, payments, txOpen, txSnapshot, nextId,
                 nextCheckout, timers, resolutions>>

\* the row is read: 404, 403, the stored status of a payment that is not
\* pending, or (sandbox, reference set) checkAndUpdatePaymentStatus
ExecStatusSelect(h, code, receipt) ==
  LET id == handlers[h].paymentId
      row == payments[id]
      r == checkPaymentStatus(environment, row.reference_number, code, receipt)
      answer(res) == /\ handlers' = [handlers EXCEPT ![h].pc = "done", ![h].res = res]
                     /\ Dequeue
  IN /\ AtHead(h, "select")
     /\ IF id \notin DOMAIN payments THEN answer([code |-> 404])
        ELSE IF UserOf(row.tenant_id) # handlers[h].user THEN answer([code |-> 403])
        ELSE IF row.payment_status # "pending" THEN answer(StatusRes(row))
        ELSE IF row.reference_number # NULL /\ environment = "sandbox" /\ r.ok
          THEN /\ handlers' = [handlers EXCEPT ![h].pc = "update",
                      ![h].payment = row,
                      ![h].checkoutRequestId = row.reference_number,
                      ![h].mpesaStatus = r.status]
               /\ Requeue(h)
        ELSE answer(StatusRes(row))
     /\ UNCHANGED <<accountVars, callVars, tokenVars, environment, payments, txOpen, txSnapshot, nextId,
                    nextCheckout, timers, resolutions>>

\* the UPDATE of checkAndUpdatePaymentStatus, issued for the status
\* endpoint or for the deferred check
ExecPollUpdate(h) ==
  LET st == handlers[h].mpesaStatus
      id == handlers[h].paymentId
  IN /\ AtHead(h, "update")
     /\ handlers[h].kind \in {"status", "deferred"}
     /\ IF id \in DOMAIN payments
          THEN /\ payments' = [payments EXCEPT
                      ![id] = PollUpdate(@, st, handlers[h].checkoutRequestId)]
               /\ resolutions' = Resolved(id, "poll", h, st, payments[id], payments'[id])
          ELSE UNCHANGED <<payments, resolutions>>
     /\ IF handlers[h].kind = "status"
          THEN /\ handlers' = [handlers EXCEPT ![h].pc = "reselect"]
               /\ Requeue(h)
          ELSE /\ handlers' = [handlers EXCEPT ![h].pc = "done"]
               /\ Dequeue
     /\ UNCHANGED <<accountVars, callVars, tokenVars, environment, txOpen, txSnapshot, nextId, nextCheckout, timers>>

\* the store refuses the UPDATE of a deferred check: the error is rethrown
\* by checkAndUpdatePaymentStatus and logged by the setTimeout callback
DeferredUpdateFails(h) ==
  /\ AtHead(h, "update")
  /\ handlers[h].kind = "deferred"
  /\ handlers' = [handlers EXCEPT ![h].pc = "done", ![h].checkFailed = TRUE]
  /\ Dequeue
  /\ UNCHANGED <<accountVars, callVars, tokenVars, environment, payments, txOpen, txSnapshot, nextId,
                 nextCheckout, timers, resolutions>>

\* SELECT * FROM payments WHERE id = ? after the check, then the answer
ExecStatusReselect(h) ==
  LET id == handlers[h].paymentId
  IN /\ AtHead(h, "reselect")
     /\ handlers' = [handlers EXCEPT ![h].pc = "done",
          ![h].res = IF id \in DOMAIN payments
                       THEN StatusRes(payments[id])
                       ELSE StatusRes(handlers[h].payment)]
     /\ Dequeue
     /\ UNCHANGED <<accountVars, callVars, tokenVars, environment, payments, txOpen, txSnapshot, nextId,
                    nextCheckout, timers, resolutions>>

\* -------------------------------------------- MpesaService.getAccessToken
TokenStillValid_NoMargin(token, expiry, time) ==
  token # NoToken /\ expiry # NoExpiry /\ time < expiry

\* this.accessToken && this.tokenExpiry &&
\*   new Date() < new Date(this.tokenExpiry.getTime() - 300000)
TokenStillValid(token, expiry, time) ==
  token # NoToken /\ expiry # NoExpiry /\ time < expiry - SafetyMargin

RefreshFlagOnStart_NotSet == FALSE

\* this.tokenRefreshInProgress = true
RefreshFlagOnStart == TRUE

RefreshFlagOnEnd_OnlyOnSuccess(granted) == ~granted

\* finally { this.tokenRefreshInProgress = false }
RefreshFlagOnEnd(granted) == FALSE

CallIds == 1..Len(tokenCalls)
Refreshing == {c \in CallIds : tokenCalls[c].pc = "refreshing"}

\* a call arrives and runs to its first await, or to its return
GetAccessToken ==
  LET c == [pc |-> "done", inProgressAtCall |-> tokenRefreshInProgress,
            refreshed |-> FALSE, contacted |-> FALSE, threw |-> FALSE,
            token |-> NoToken]
  IN /\ Len(tokenCalls) < MaxTokenCalls
     /\ IF tokenRefreshInProgress
          THEN /\ tokenCalls' = Append(tokenCalls, [c EXCEPT !.pc = "waiting"])
               /\ UNCHANGED <<accessToken, tokenExpiry, tokenRefreshInProgress,
                              tokensIssued>>
        ELSE IF TokenStillValid(accessToken, tokenExpiry, now)
          THEN /\ tokenCalls' = Append(tokenCalls, [c EXCEPT !.token = accessToken])
               /\ UNCHANGED <<accessToken, tokenExpiry, tokenRefreshInProgress,
                              tokensIssued>>
        ELSE IF environment = "sandbox"
          THEN /\ accessToken' = tokensIssued + 1
               /\ tokensIssued' = tokensIssued + 1
               /\ tokenExpiry' = now + SandboxLifetime
               /\ tokenRefreshInProgress' = FALSE
               /\ tokenCalls' = Append(tokenCalls,
                      [c EXCEPT !.refreshed = TRUE, !.token = tokensIssued + 1])
        ELSE /\ tokenRefreshInProgress' = RefreshFlagOnStart
             /\ tokenCalls' = Append(tokenCalls,
                    [c EXCEPT !.pc = "refreshing", !.refreshed = TRUE,
                              !.contacted = TRUE])
             /\ UNCHANGED <<accessToken, tokenExpiry, tokensIssued>>
     /\ UNCHANGED <<accountVars, callVars, paymentVars, now>>

\* a waiting call wakes up with the flag cleared and returns this.accessToken
WaitEnds(c) ==
  /\ c \in CallIds
  /\ tokenCalls[c].pc = "waiting"
  /\ ~tokenRefreshInProgress
  /\ tokenCalls' = [tokenCalls EXCEPT ![c].pc = "done", ![c].token = accessToken]
  /\ UNCHANGED <<accountVars, callVars, paymentVars,
                 accessToken, tokenExpiry, tokenRefreshInProgress, tokensIssued, now>>

\* production: the gateway grants a token that lives for lifetime, or the
\* request fails; catch clears the cache and finally clears the flag
RefreshReply(c, granted, lifetime) ==
  /\ c \in CallIds
  /\ tokenCalls[c].pc = "refreshing"
  /\ IF granted
       THEN /\ accessToken' = tokensIssued + 1
            /\ tokensIssued' = tokensIssued + 1
            /\ tokenExpiry' = now + lifetime
            /\ tokenCalls' = [tokenCalls EXCEPT ![c].pc = "done",
                                                ![c].token = tokensIssued + 1]
       ELSE /\ accessToken' = NoToken
            /\ tokenExpiry' = NoExpiry
            /\ tokenCalls' = [tokenCalls EXCEPT ![c].pc = "done", ![c].threw = TRUE]
            /\ UNCHANGED tokensIssued
  /\ tokenRefreshInProgress' = RefreshFlagOnEnd(granted)
  /\ UNCHANGED <<accountVars, callVars, paymentVars, now>>

\* time passes
Tick ==
  /\ now < MaxNow
  /\ now' = now + 1
  /\ UNCHANGED <<accountVars, callVars, paymentVars,
                 accessToken, tokenExpiry, tokenRefreshInProgress, tokensIssued,
                 tokenCalls>>

\* -------------------------------------------- calls of the service alone
\* phone arguments: a prefix and a subscriber number, PLUS standing for any
\* character that is not a digit
PhonePrefixes ==
  {<<>>, <<0>>, <<7>>, <<1>>, <<2, 5, 4>>, <<PLUS, 2, 5, 4>>, <<8>>, <<2, 5>>}
PhoneBodies ==
  {<<7, 1, 2, 3, 4, 5, 6, 7, 8>>, <<1, 1, 2, 3, 4, 5, 6, 7, 8>>,
   <<7, 1, 2, 3, 4, 5, 6, 7>>, <<7, 1, 2, 3, 4, 5, 6, 7, 8, 9>>,
   <<7, 1, 2, PLUS, 3, 4, 5, PLUS, 6, 7, 8>>, <<>>,
   <<0, 7, 1, 2, 3, 4, 5, 6, 7, 8>>, <<2, 5, 4, 7, 1, 2, 3, 4, 5, 6, 7, 8>>}
PhoneInputs == {p \o b : p \in PhonePrefixes, b \in PhoneBodies}

InitPhone ==
  /\ InitServer
  /\ phoneCall \in {[NoPhoneCall EXCEPT !.phone = p, !.done = FALSE, !.againDone = FALSE] :
                      p \in PhoneInputs}
  /\ pushCall = NoPushCall

\* mpesaService.formatPhoneNumber(phone)
FormatPhoneCall ==
  /\ ~phoneCall.done
  /\ phoneCall' = [phoneCall EXCEPT !.done = TRUE,
                                    !.result = formatPhoneNumber(phoneCall.phone)]
  /\ UNCHANGED <<accountVars, paymentVars, tokenVars, pushCall>>

\* the formatted number is formatted once more, as initiatePayment does
\* with the formattedPhone the initiate handler passes to it
FormatPhoneAgain ==
  /\ phoneCall.done
  /\ phoneCall.result.ok
  /\ ~phoneCall.againDone
  /\ phoneCall' = [phoneCall EXCEPT !.againDone = TRUE,
                                    !.again = formatPhoneNumber(phoneCall.result.value)]
  /\ UNCHANGED <<accountVars, paymentVars, tokenVars, pushCall>>

NextPhone == FormatPhoneCall \/ FormatPhoneAgain

SpecPhone == InitPhone /\ [][NextPhone]_vars

\* paymentRequest.amount in tenths: around zero and around the ceiling
PushAmounts == (-15..25) \cup (4999990..5000025)
PushPhone == <<2, 5, 4, 7, 1, 2, 3, 4, 5, 6, 7, 8>>

InitPush ==
  /\ InitServer
  /\ phoneCall = NoPhoneCall
  /\ pushCall \in {[NoPushCall EXCEPT !.amount = Num(t), !.done = FALSE] : t \in PushAmounts}

\* mpesaService.initiatePayment({phone, amount, ...})
PushCall(accepted) ==
  /\ ~pushCall.done
  /\ pushCall' = [pushCall EXCEPT !.done = TRUE, !.accepted = accepted,
         !.result = initiatePayment(PushPhone, pushCall.amount, accepted, 1)]
  /\ UNCHANGED <<accountVars, paymentVars, tokenVars, phoneCall>>

NextPush == \E accepted \in BOOLEAN : PushCall(accepted)

SpecPush == InitPush /\ [][NextPush]_vars

\* ------------------------------------------------- PUT /api/payments/:id
AllowedStatuses == {"pending", "completed", "failed", "refunded"}

\* notes || null
LandlordNotes(notes) ==
  [JsonNotes EXCEPT !.form = IF notes = UNDEF THEN NULL ELSE notes]

PutRes(code, message) == [code |-> code, message |-> message]

\* the request bodies tried, for an existing payment and for a missing one
PutPaymentIds == {1, 3}
PutBodies ==
  [payment_status : AllowedStatuses \cup {"cancelled", UNDEF},
   notes : {"corrected by landlord", UNDEF}]

\* authenticateToken and checkRole('landlord'), the check of payment_status,
\* then the UPDATE is issued
PutRequest(role, paymentId, body) ==
  LET h == Len(handlers) + 1
      hd == [kind |-> "put", pc |-> "update", paymentId |-> paymentId,
             body |-> body, res |-> NoRes]
  IN /\ Cardinality(OfKind("put")) < MaxPut
     /\ IF role # "landlord"
          THEN /\ handlers' = Append(handlers,
                      [hd EXCEPT !.pc = "done",
                                 !.res = PutRes(403, "Access denied. landlord only.")])
               /\ UNCHANGED connQueue
        ELSE IF body.payment_status \notin AllowedStatuses
          THEN /\ handlers' = Append(handlers,
                      [hd EXCEPT !.pc = "done",
                                 !.res = PutRes(400, "Invalid payment status")])
               /\ UNCHANGED connQueue
        ELSE /\ handlers' = Append(handlers, hd)
             /\ connQueue' = Append(connQueue, h)
     /\ UNCHANGED <<accountVars, callVars, tokenVars, environment, payments, txOpen, txSnapshot, nextId,
                    nextCheckout, timers, resolutions>>

\* UPDATE payments SET payment_status = ?, notes = ? WHERE id = ?, then the
\* answer by result.affectedRows
ExecPutUpdate(h) ==
  LET id == handlers[h].paymentId
      body == handlers[h].body
  IN /\ AtHead(h, "update")
     /\ handlers[h].kind = "put"
     /\ IF id \in DOMAIN payments
          THEN /\ payments' = [payments EXCEPT
                      ![id].payment_status = body.payment_status,
                      ![id].notes = LandlordNotes(body.notes)]
               /\ handlers' = [handlers EXCEPT ![h].pc = "done",
                      ![h].res = PutRes(200, "Payment status updated successfully")]
          ELSE /\ UNCHANGED payments
               /\ handlers' = [handlers EXCEPT ![h].pc = "done",
                      ![h].res = PutRes(404, "Payment not found")]
     /\ Dequeue
     /\ UNCHANGED <<accountVars, callVars, tokenVars, environment, txOpen, txSnapshot, nextId, nextCheckout,
                    timers, resolutions>>

\* ------------------------------------------------------- account routes
\* These requests are modelled one at a time: each action is a whole request.
AccountAnswer(route, code, message) ==
  [route |-> route, code |-> code, message |-> message]

Answer(a) == answers' = Append(answers, a)

EmailTaken(email) == \E u \in users : u.email = email

\* role === 'tenant' ? 'tenant' : 'landlord'
UserRole(role) == IF role = "tenant" THEN "tenant" ELSE "landlord"

NewEmail == "new@kenco"
RegisterBodies ==
  [name : {"Ann", UNDEF}, email : {NewEmail, TenantEmail, UNDEF},
   password : {"secret", UNDEF}, role : {"tenant", UNDEF}]

\* what the handler answers once its INSERT has succeeded: res.status(201)
\* is given an object that reads result.insertId, and no `result` is
\* declared in the handler, so building the answer throws a ReferenceError
\* and the catch block answers instead
RegisteredAnswer == AccountAnswer("register", 500, "Server error")

\* POST /api/auth/register; storeOk is whether the INSERT is executed
Register(body, storeOk) ==
  /\ Len(answers) < MaxAccountCalls
  /\ IF body.name = UNDEF \/ body.email = UNDEF \/ body.password = UNDEF
       THEN /\ Answer(AccountAnswer("register", 400, "Please enter all fields"))
            /\ UNCHANGED <<users, nextUserId>>
     ELSE IF EmailTaken(body.email)
       THEN /\ Answer(AccountAnswer("register", 400, "User already exists"))
            /\ UNCHANGED <<users, nextUserId>>
     ELSE IF ~storeOk
       THEN /\ Answer(AccountAnswer("register", 500, "Server error"))
            /\ UNCHANGED <<users, nextUserId>>
     ELSE /\ users' = users \cup
                 {[id |-> nextUserId, email |-> body.email, role |-> UserRole(body.role)]}
          /\ nextUserId' = nextUserId + 1
          /\ Answer(RegisteredAnswer)
  /\ UNCHANGED <<paymentVars, tokenVars, callVars, tenants, properties, nextTenantId>>

\* the user of the request's token
Caller(id) == CHOOSE u \in users : u.id = id
Callers == {1, 2, 3}

TenantBodies ==
  [name : {"Ann", UNDEF}, email : {NewEmail, "second@kenco", TenantEmail},
   property_id : {1, 2, 9}]

\* POST /api/tenants: the user and the tenant are inserted and the property
\* is marked occupied in one transaction; the tenant's INSERT fails on a
\* property_id that references no property, and the transaction is rolled
\* back (the user id it drew is not given back)
AddTenant(caller, body) ==
  /\ Len(answers) < MaxAccountCalls
  /\ IF Caller(caller).role # "landlord"
       THEN /\ Answer(AccountAnswer("add-tenant", 403, "Access denied. Landlords only."))
            /\ UNCHANGED <<users, tenants, properties, nextUserId, nextTenantId>>
     ELSE IF body.name = UNDEF
       THEN /\ Answer(AccountAnswer("add-tenant", 400, "Please provide all required fields"))
            /\ UNCHANGED <<users, tenants, properties, nextUserId, nextTenantId>>
     ELSE IF EmailTaken(body.email)
       THEN /\ Answer(AccountAnswer("add-tenant", 400, "Email already registered"))
            /\ UNCHANGED <<users, tenants, properties, nextUserId, nextTenantId>>
     ELSE IF body.property_id \notin DOMAIN properties
       THEN /\ Answer(AccountAnswer("add-tenant", 500, "foreign key constraint fails"))
            /\ nextUserId' = nextUserId + 1
            /\ UNCHANGED <<users, tenants, properties, nextTenantId>>
     ELSE /\ users' = users \cup
                 {[id |-> nextUserId, email |-> body.email, role |-> "tenant"]}
          /\ tenants' = tenants \cup
                 {[id |-> nextTenantId, user_id |-> nextUserId,
                   property_id |-> body.property_id]}
          /\ properties' = [properties EXCEPT ![body.property_id].status = "occupied"]
          /\ nextUserId' = nextUserId + 1
          /\ nextTenantId' = nextTenantId + 1
          /\ Answer(AccountAnswer("add-tenant", 201, "Tenant account created successfully"))
  /\ UNCHANGED <<paymentVars, tokenVars, callVars>>

\* SELECT t.* ... WHERE t.id = ? AND p.landlord_id = ?
TenantCheck(tenantId, landlordId) ==
  {t \in tenants : /\ t.id = tenantId
                   /\ properties[t.property_id].landlord_id = landlordId
                   /\ \E u \in users : u.id = t.user_id}

\* DELETE /api/landlord/tenants/:id: the property is marked available and
\* the tenant is deleted in one transaction
RemoveTenant(caller, tenantId) ==
  LET found == TenantCheck(tenantId, caller)
      tenant == CHOOSE t \in found : TRUE
  IN /\ Len(answers) < MaxAccountCalls
     /\ IF Caller(caller).role # "landlord"
          THEN /\ Answer(AccountAnswer("remove-tenant", 403, "Access denied. landlord only."))
               /\ UNCHANGED <<tenants, properties>>
        ELSE IF found = {}
          THEN /\ Answer(AccountAnswer("remove-tenant", 404, "Tenant not found or access denied"))
               /\ UNCHANGED <<tenants, properties>>
        ELSE /\ properties' = [properties EXCEPT ![tenant.property_id].status = "available"]
             /\ tenants' = tenants \ {tenant}
             /\ Answer(AccountAnswer("remove-tenant", 200, "Tenant removed successfully"))
     /\ UNCHANGED <<paymentVars, tokenVars, callVars, users, nextUserId, nextTenantId>>

TenantIds == 1..3

NextAccounts ==
  \/ \E body \in RegisterBodies, storeOk \in BOOLEAN : Register(body, storeOk)
  \/ \E caller \in Callers, body \in TenantBodies : AddTenant(caller, body)
  \/ \E caller \in Callers, id \in TenantIds : RemoveTenant(caller, id)

SpecAccounts == Init /\ [][NextAccounts]_vars

\* ------------------------------------------------------------ behaviours
IssuedCheckoutIds == {CheckoutIds[i] : i \in 1..nextCheckout}

CallbackInputs ==
  {Payload(FALSE, UnknownCheckoutId, 0, FALSE, UNDEF)}
  \cup {Payload(TRUE, c, 1032, FALSE, UNDEF) : c \in IssuedCheckoutIds \cup {UnknownCheckoutId}}
  \cup {Payload(TRUE, c, 0, FALSE, UNDEF) : c \in IssuedCheckoutIds}
  \cup {Payload(TRUE, c, 0, TRUE, r) : c \in IssuedCheckoutIds, r \in Receipts}

\* the payment flow around one initiate request: callbacks, status requests
\* and the deferred check in any order
Next ==
  \/ \E body \in FlowInputs :
        /\ Cardinality(OfKind("initiate")) < MaxFlowInitiate
        /\ InitiateRequest(body)
  \/ \E h \in HandlerIds : ExecTenantSelect(h)
  \/ \E h \in HandlerIds : ExecBeginTransaction(h)
  \/ \E h \in HandlerIds : ExecInsert(h)
  \/ \E h \in HandlerIds, accepted \in BOOLEAN : GatewayReply(h, accepted)
  \/ \E h \in HandlerIds : ExecInitiateUpdate(h)
  \/ \E h \in HandlerIds : ExecCommit(h)
  \/ \E h \in HandlerIds : ExecRollback(h)
  \/ \E payload \in CallbackInputs : CallbackRequest(payload)
  \/ \E h \in HandlerIds, storeOk \in BOOLEAN : ExecCallbackSelect(h, storeOk)
  \/ \E h \in HandlerIds, storeOk \in BOOLEAN : ExecCallbackUpdate(h, storeOk)
  \/ \E t \in timers, code \in ResultCodes, receipt \in Receipts :
        TimerFire(t, code, receipt)
  \/ \E user \in Users, id \in 1..nextId : StatusRequest(user, id)
  \/ \E h \in HandlerIds, code \in ResultCodes, receipt \in Receipts :
        ExecStatusSelect(h, code, receipt)
  \/ \E h \in HandlerIds : ExecPollUpdate(h)
  \/ \E h \in HandlerIds : ExecStatusReselect(h)

Spec == Init /\ [][Next]_vars

\* an armed setTimeout callback runs
TimerFires ==
  \E t \in timers, code \in ResultCodes, receipt \in Receipts :
    TimerFire(t, code, receipt)

\* the connection executes the statement at the head of its queue
ConnectionStep ==
  \E h \in HandlerIds :
    \/ ExecTenantSelect(h) \/ ExecBeginTransaction(h) \/ ExecInsert(h)
    \/ ExecInitiateUpdate(h) \/ ExecCommit(h) \/ ExecRollback(h)
    \/ ExecCallbackSelect(h, TRUE) \/ ExecCallbackUpdate(h, TRUE)
    \/ \E code \in ResultCodes, receipt \in Receipts : ExecStatusSelect(h, code, receipt)
    \/ ExecPollUpdate(h) \/ ExecStatusReselect(h)

\* the payment flow when the event loop runs every armed timer and the
\* store executes every statement it is sent
SpecLive == Spec /\ WF_vars(TimerFires) /\ WF_vars(ConnectionStep)

\* overlapping initiate requests, with every kind of request body
NextInitiate ==
  \/ \E body \in InitiateInputs : InitiateRequest(body)
  \/ \E h \in HandlerIds : ExecTenantSelect(h)
  \/ \E h \in HandlerIds : ExecBeginTransaction(h)
  \/ \E h \in HandlerIds : ExecInsert(h)
  \/ \E h \in HandlerIds, accepted \in BOOLEAN : GatewayReply(h, accepted)
  \/ \E h \in HandlerIds : ExecInitiateUpdate(h)
  \/ \E h \in HandlerIds : ExecCommit(h)
  \/ \E h \in HandlerIds : ExecRollback(h)

SpecInitiate == Init /\ [][NextInitiate]_vars

\* the body of the requests that share the connection with callbacks
SharedInputs == {Body("tenantUser", Num(15), Phone0712)}

\* the callbacks sent for the pushes that were accepted
SharedCallbacks ==
  {Payload(TRUE, c, 1032, FALSE, UNDEF) : c \in IssuedCheckoutIds}
  \cup {Payload(TRUE, c, 0, TRUE, r) : c \in IssuedCheckoutIds, r \in Receipts}

\* overlapping initiate requests and the callbacks of their payments, all on
\* the one connection
NextShared ==
  \/ \E body \in SharedInputs : InitiateRequest(body)
  \/ \E h \in HandlerIds : ExecTenantSelect(h)
  \/ \E h \in HandlerIds : ExecBeginTransaction(h)
  \/ \E h \in HandlerIds : ExecInsert(h)
  \/ \E h \in HandlerIds, accepted \in BOOLEAN : GatewayReply(h, accepted)
  \/ \E h \in HandlerIds : ExecInitiateUpdate(h)
  \/ \E h \in HandlerIds : ExecCommit(h)
  \/ \E h \in HandlerIds : ExecRollback(h)
  \/ \E payload \in SharedCallbacks : CallbackRequest(payload)
  \/ \E h \in HandlerIds : ExecCallbackSelect(h, TRUE)
  \/ \E h \in HandlerIds : ExecCallbackUpdate(h, TRUE)

SpecShared == Init /\ [][NextShared]_vars

\* one payment, its callbacks, and the landlord's PUT /api/payments/:id
NextLandlord ==
  \/ \E body \in SharedInputs :
        /\ Cardinality(OfKind("initiate")) < MaxFlowInitiate
        /\ InitiateRequest(body)
  \/ \E h \in HandlerIds : ExecTenantSelect(h)
  \/ \E h \in HandlerIds : ExecBeginTransaction(h)
  \/ \E h \in HandlerIds : ExecInsert(h)
  \/ \E h \in HandlerIds, accepted \in BOOLEAN : GatewayReply(h, accepted)
  \/ \E h \in HandlerIds : ExecInitiateUpdate(h)
  \/ \E h \in HandlerIds : ExecCommit(h)
  \/ \E h \in HandlerIds : ExecRollback(h)
  \/ \E payload \in SharedCallbacks : CallbackRequest(payload)
  \/ \E h \in HandlerIds : ExecCallbackSelect(h, TRUE)
  \/ \E h \in HandlerIds : ExecCallbackUpdate(h, TRUE)
  \/ \E role \in {"landlord", "tenant"}, id \in PutPaymentIds, body \in PutBodies :
        PutRequest(role, id, body)
  \/ \E h \in HandlerIds : ExecPutUpdate(h)

SpecLandlord == Init /\ [][NextLandlord]_vars

\* the bodies tried around the deferred checks: a valid one, one of a user
\* without tenancy and an invalid one
DeferredInputs ==
  { Body("tenantUser", Num(15), Phone0712),
    Body("otherUser", Num(15), Phone0712),
    Body("tenantUser", Num(15), PhoneShort) }

\* overlapping initiate requests and the deferred checks they arm
NextDeferred ==
  \/ \E body \in DeferredInputs : InitiateRequest(body)
  \/ \E h \in HandlerIds : ExecTenantSelect(h)
  \/ \E h \in HandlerIds : ExecBeginTransaction(h)
  \/ \E h \in HandlerIds : ExecInsert(h)
  \/ \E h \in HandlerIds, accepted \in BOOLEAN : GatewayReply(h, accepted)
  \/ \E h \in HandlerIds : ExecInitiateUpdate(h)
  \/ \E h \in HandlerIds : ExecCommit(h)
  \/ \E h \in HandlerIds : ExecRollback(h)
  \/ \E t \in timers, code \in ResultCodes, receipt \in Receipts :
        TimerFire(t, code, receipt)
  \/ \E h \in HandlerIds : ExecPollUpdate(h)
  \/ \E h \in HandlerIds : DeferredUpdateFails(h)

SpecDeferred == Init /\ [][NextDeferred]_vars

\* concurrent getAccessToken calls over time
NextToken ==
  \/ GetAccessToken
  \/ \E c \in CallIds : WaitEnds(c)
  \/ \E c \in CallIds, granted \in BOOLEAN, lifetime \in Lifetimes :
        RefreshReply(c, granted, lifetime)
  \/ Tick

SpecToken == Init /\ [][NextToken]_vars

\* the same, where the gateway's reply (or axios' 30 s timeout) arrives and
\* the 100 ms timer of every waiting call keeps firing
SpecTokenLive ==
  /\ SpecToken
  /\ WF_vars(\E c \in CallIds, granted \in BOOLEAN, lifetime \in Lifetimes :
                RefreshReply(c, granted, lifetime))
  /\ \A c \in 1..MaxTokenCalls : WF_vars(WaitEnds(c))

\* ------------------------------------------------ vocabulary of the claims
Terminal(row) == row.payment_status \in {"completed", "failed"}

\* handler h executes its resolving UPDATE in this step
Resolves(h) ==
  /\ handlers[h].kind \in {"callback", "status", "deferred"}
  /\ handlers[h].pc = "update"
  /\ handlers'[h].pc # "update"

\* the StatusResult handler h resolves with
StatusOf(h) == IF handlers[h].kind = "callback" THEN handlers[h].paymentStatus
               ELSE handlers[h].mpesaStatus

\* the resolution columns of payment id are the same after the step
SameResolution(id) ==
  /\ id \in DOMAIN payments'
  /\ payments'[id].payment_status = payments[id].payment_status
  /\ payments'[id].reference_number = payments[id].reference_number
  /\ payments'[id].notes = payments[id].notes

\* the payment was pending when handler h looked at it
SawPending(h) ==
  \/ handlers[h].kind = "callback" /\ handlers[h].foundStatus = "pending"
  \/ handlers[h].kind = "deferred" /\ handlers[h].firedStatus = "pending"
  \/ handlers[h].kind = "status" /\ handlers[h].payment # NoRow

\* two results that agree on code, CheckoutRequestID and metadata
SameResult(a, b) ==
  /\ a.ResultCode = b.ResultCode
  /\ a.CheckoutRequestID = b.CheckoutRequestID
  /\ a.MpesaReceiptNumber = b.MpesaReceiptNumber
  /\ a.TransactionDate = b.TransactionDate
  /\ a.PhoneNumber = b.PhoneNumber

\* C1: once a payment is 'completed' or 'failed', no callback or poll
\* changes its payment_status, reference_number or notes.
C1_TerminalIsFinal ==
  [][\A h \in HandlerIds : Resolves(h) =>
        \A id \in DOMAIN payments : Terminal(payments[id]) => SameResolution(id)]_vars

\* C2: when a poll and a callback that both found the payment pending
\* resolve it with different outcomes, the record keeps the status and notes
\* of the update applied first.
C2_FirstUpdateWins ==
  \A id \in DOMAIN resolutions \cap DOMAIN payments :
    Len(resolutions[id]) = 2 =>
      LET a == resolutions[id][1]
          b == resolutions[id][2]
      IN (/\ a.via # b.via
          /\ (a.status.ResultCode = "0") # (b.status.ResultCode = "0")
          /\ SawPending(a.handler) /\ SawPending(b.handler))
         => /\ payments[id].payment_status = a.after.payment_status
            /\ payments[id].notes = a.after.notes

\* C3: resolving again with a successful StatusResult the payment was
\* already resolved with writes nothing: reference_number and notes stay.
C3_SecondSuccessWritesNothing ==
  [][\A h \in HandlerIds :
        (/\ Resolves(h)
         /\ StatusOf(h).ResultCode = "0"
         /\ handlers[h].paymentId \in DOMAIN resolutions \cap DOMAIN payments
         /\ payments[handlers[h].paymentId].payment_status = "completed"
         /\ \E i \in DOMAIN resolutions[handlers[h].paymentId] :
               SameResult(resolutions[handlers[h].paymentId][i].status, StatusOf(h)))
        => /\ SameResolution(handlers[h].paymentId)
           /\ resolutions' = resolutions]_vars

\* C4: a reference_number that holds the gateway's CheckoutRequestID is not
\* changed by a callback, a status poll or the deferred check.
C4_CorrelationIdKept ==
  [][\A h \in HandlerIds : Resolves(h) =>
        \A id \in DOMAIN payments \cap DOMAIN payments' :
          payments[id].reference_number \in IssuedCheckoutIds =>
            payments'[id].reference_number = payments[id].reference_number]_vars

\* C5: the deferred check of a payment that a callback resolved before the
\* check fired leaves payment_status, reference_number and notes as they are.
C5_DeferredAfterCallbackIsNoOp ==
  [][\A h \in HandlerIds :
        (/\ Resolves(h)
         /\ handlers[h].kind = "deferred"
         /\ handlers[h].firedStatus \in {"completed", "failed"}
         /\ handlers[h].paymentId \in DOMAIN resolutions \cap DOMAIN payments
         /\ resolutions[handlers[h].paymentId][1].via = "callback")
        => SameResolution(handlers[h].paymentId)]_vars

C7_FailedPushLeavesNoRecord ==
  \A h \in OfKind("initiate") :
    (/\ handlers[h].pc = "done"
     /\ handlers[h].res.code = 500
     /\ handlers[h].paymentId # 0)
    => handlers[h].paymentId \notin DOMAIN payments

\* the request body is one the claim calls invalid
InvalidBody(amount, phone) ==
  \/ AmountFalsy(amount)
  \/ phone = PhoneMissing
  \/ AmountIsNaN(amount)
  \/ FloorAmount(amount) \notin 1..500000
  \/ ~formatPhoneNumber(phone).ok

\* C8: an initiate request with an invalid body is answered 400 at once: it
\* opens no transaction, inserts no payment, calls no gateway, arms no check.
C8_InvalidRequestLeavesNothing ==
  \A h \in OfKind("initiate") :
    InvalidBody(handlers[h].amount, handlers[h].phone) =>
      /\ handlers[h].pc = "done"
      /\ handlers[h].res.code = 400
      /\ ~handlers[h].began
      /\ handlers[h].paymentId = 0
      /\ ~handlers[h].gatewayCalled
      /\ ~handlers[h].armed
      /\ \A i \in 1..Len(connQueue) : connQueue[i] # h

\* a request for 500001 shillings was refused while another request's
\* payment is in the table
C8_Witness ==
  \E h \in OfKind("initiate") :
    /\ handlers[h].amount = Num(5000010)
    /\ handlers[h].res.code = 400
    /\ DOMAIN payments # {}

\* C9: a callback whose CheckoutRequestID is no payment's reference_number
\* changes no payment, creates none, and is acknowledged.
C9_UnknownCallbackTouchesNothing ==
  [][\A h \in HandlerIds :
        (/\ handlers[h].kind = "callback"
         /\ handlers[h].pc = "lookup"
         /\ handlers'[h].pc # "lookup"
         /\ \A id \in DOMAIN payments :
               payments[id].reference_number # handlers[h].paymentStatus.CheckoutRequestID)
        => /\ payments' = payments
           /\ resolutions' = resolutions
           /\ handlers'[h].pc = "done"
           /\ handlers'[h].res = Accepted]_vars

\* a well-formed callback for an unknown id was acknowledged while a payment
\* exists, and no resolving UPDATE has been executed
C9_Witness ==
  \E h \in OfKind("callback") :
    /\ handlers[h].payload.stkCallback
    /\ handlers[h].paymentStatus.CheckoutRequestID = UnknownCheckoutId
    /\ handlers[h].pc = "done" /\ ~handlers[h].storeFailed
    /\ handlers[h].res = Accepted
    /\ DOMAIN payments # {}
    /\ DOMAIN resolutions = {}

\* C10: a callback that found its payment pending leaves it 'completed' with
\* receipt, date, payer phone and balance in notes when ResultCode is 0, and
\* 'failed' with the code and description in notes otherwise.
C10_CallbackRecordsOutcome ==
  [][\A h \in HandlerIds :
        (/\ handlers[h].kind = "callback"
         /\ handlers[h].pc # "done"
         /\ handlers'[h].pc = "done"
         /\ handlers'[h].found
         /\ handlers'[h].foundStatus = "pending"
         /\ ~handlers'[h].storeFailed
         /\ handlers'[h].paymentId \in DOMAIN payments')
        => LET row == payments'[handlers'[h].paymentId]
               st == handlers[h].paymentStatus
           IN IF st.ResultCode = "0"
                THEN /\ row.payment_status = "completed"
                     /\ row.notes.mpesaReceiptNumber # UNDEF
                     /\ row.notes.transactionDate # UNDEF
                     /\ row.notes.phoneNumber # UndefText
                     /\ row.notes.balance # UNDEF
                ELSE /\ row.payment_status = "failed"
                     /\ row.notes = ErrorNotes(st)]_vars

\* handler h has sent a status query to the gateway
QueriedGateway(h) ==
  \/ handlers[h].kind = "deferred"
  \/ handlers[h].kind = "status" /\ handlers[h].payment # NoRow

\* the payment_status of its payment when handler h sent the query
StatusAtQuery(h) ==
  IF handlers[h].kind = "deferred" THEN handlers[h].firedStatus
  ELSE handlers[h].payment.payment_status

\* C11: no status query goes to the gateway, from the status endpoint or
\* from the deferred check, for a payment that is 'completed' or 'failed'.
C11_NoQueryForTerminal ==
  \A h \in HandlerIds :
    QueriedGateway(h) => StatusAtQuery(h) \notin {"completed", "failed"}

\* the deferred checks of initiate h: armed and waiting, or run
ArmedFor(h) ==
  {t \in timers : /\ t.paymentId = handlers[h].paymentId
                  /\ t.checkoutRequestId = handlers[h].mpesaResponse.CheckoutRequestID}
RunFor(h) ==
  {d \in OfKind("deferred") :
      /\ handlers[d].paymentId = handlers[h].paymentId
      /\ handlers[d].checkoutRequestId = handlers[h].mpesaResponse.CheckoutRequestID}

\* initiate h has committed and answered 201
Committed(h) == handlers[h].pc = "done" /\ handlers[h].res.code = 201

\* C12: an initiate that committed in the sandbox has exactly one deferred
\* check, waiting or run once, whether or not the check failed; any other
\* initiate has none, and every check belongs to a committed initiate.
C12_OneDeferredCheck ==
  /\ \A h \in OfKind("initiate") :
        Cardinality(ArmedFor(h)) + Cardinality(RunFor(h)) =
          IF Committed(h) /\ environment = "sandbox" THEN 1 ELSE 0
  /\ \A t \in timers : \E h \in OfKind("initiate") : Committed(h) /\ t \in ArmedFor(h)
  /\ \A d \in OfKind("deferred") :
        \E h \in OfKind("initiate") : Committed(h) /\ d \in RunFor(h)

\* two initiates have committed in the sandbox; the check of one has failed
\* and the check of the other is still waiting
C12_Witness ==
  \E a, b \in OfKind("initiate") :
    /\ a # b /\ Committed(a) /\ Committed(b)
    /\ \E d \in RunFor(a) : handlers[d].checkFailed
    /\ ArmedFor(b) # {}

\* a getAccessToken call arrives in this step; the call that arrived
Arrives == Len(tokenCalls') = Len(tokenCalls) + 1
NewCall == tokenCalls'[Len(tokenCalls')]

\* C13: at most one token refresh is in flight; a call that arrives while
\* tokenRefreshInProgress is set sends no request of its own, and returns only
\* once no refresh is in flight.
C13_SingleRefresh ==
  /\ [](Cardinality(Refreshing) <= 1)
  /\ [][(Arrives /\ tokenRefreshInProgress) =>
          /\ NewCall.pc = "waiting"
          /\ ~NewCall.contacted /\ ~NewCall.refreshed
          /\ Refreshing' = Refreshing]_vars
  /\ [][\A c \in CallIds :
          (tokenCalls[c].pc = "waiting" /\ tokenCalls'[c].pc # "waiting") =>
            /\ Refreshing = {}
            /\ tokenCalls'[c].pc = "done"
            /\ ~tokenCalls'[c].contacted /\ ~tokenCalls'[c].refreshed]_vars

\* one refresh is in flight and two calls wait for it
C13_Witness ==
  /\ Cardinality(Refreshing) = 1
  /\ Cardinality({c \in CallIds : tokenCalls[c].pc = "waiting"}) = 2

\* C14: every getAccessToken call that has ended has returned a token that
\* is not empty, or has thrown the authentication error.
C14_TokenOrError ==
  \A c \in CallIds :
    tokenCalls[c].pc = "done" =>
      tokenCalls[c].threw \/ tokenCalls[c].token # NoToken

\* C15: a call that arrives while no refresh is in progress returns the
\* cached token, with no request and no new token, exactly when a token is
\* cached and the time is before tokenExpiry less the 5 minutes; otherwise it
\* starts a refresh, and what a refresh returns is the token it installed.
C15_CachedWhileFresh ==
  /\ [][(Arrives /\ ~tokenRefreshInProgress) =>
          IF accessToken # NoToken /\ tokenExpiry # NoExpiry
             /\ now + SafetyMargin < tokenExpiry
            THEN /\ NewCall.pc = "done" /\ ~NewCall.threw
                 /\ NewCall.token = accessToken
                 /\ ~NewCall.contacted /\ ~NewCall.refreshed
                 /\ UNCHANGED <<accessToken, tokenExpiry, tokensIssued>>
            ELSE /\ NewCall.refreshed
                 /\ NewCall.pc = "done" =>
                       /\ tokensIssued' = tokensIssued + 1
                       /\ NewCall.token = tokensIssued'
                       /\ accessToken' = tokensIssued']_vars
  /\ [][\A c \in CallIds :
          (/\ tokenCalls[c].pc = "refreshing"
           /\ tokenCalls'[c].pc = "done"
           /\ ~tokenCalls'[c].threw) =>
            /\ tokensIssued' = tokensIssued + 1
            /\ tokenCalls'[c].token = tokensIssued'
            /\ accessToken' = tokensIssued']_vars

\* a call got a fresh token, a later call got that token from the cache, and
\* a still later call found it too old and got another
C15_Witness ==
  \E a, b, c \in CallIds :
    /\ a < b /\ b < c
    /\ tokenCalls[a].refreshed /\ tokenCalls[a].token # NoToken
    /\ tokenCalls[b].pc = "done" /\ ~tokenCalls[b].refreshed
    /\ ~tokenCalls[b].inProgressAtCall /\ tokenCalls[b].token = tokenCalls[a].token
    /\ tokenCalls[c].refreshed /\ tokenCalls[c].pc = "done" /\ ~tokenCalls[c].threw
    /\ tokenCalls[c].token # tokenCalls[a].token

Normalised712 == <<2, 5, 4, 7, 1, 2, 3, 4, 5, 6, 7, 8>>

\* C16: formatPhoneNumber turns 0712345678, 712345678 and 254712345678 into
\* 254712345678; for any argument it returns 12 digits that begin with 254,
\* or throws one of its two invalid-phone errors.
C16_PhoneNormalised ==
  phoneCall.done =>
    /\ phoneCall.phone \in {<<0, 7, 1, 2, 3, 4, 5, 6, 7, 8>>,
                             <<7, 1, 2, 3, 4, 5, 6, 7, 8>>,
                             <<2, 5, 4, 7, 1, 2, 3, 4, 5, 6, 7, 8>>}
         => phoneCall.result.ok /\ phoneCall.result.value = Normalised712
    /\ IF phoneCall.result.ok
         THEN /\ Len(phoneCall.result.value) = 12
              /\ \A i \in 1..12 : phoneCall.result.value[i] \in 0..9
              /\ SubSeq(phoneCall.result.value, 1, 3) = <<2, 5, 4>>
         ELSE phoneCall.result.error \in
                {"Invalid phone number format",
                 "Phone number must be 12 digits in 254XXXXXXXXX format"}

\* 712345678 has been formatted
C16_Witness ==
  /\ phoneCall.done
  /\ phoneCall.phone = <<7, 1, 2, 3, 4, 5, 6, 7, 8>>
  /\ phoneCall.result.value = Normalised712

\* C17: initiatePayment throws, and no push is accepted, when the floor of
\* the amount is below 1 or above 500000; for any other amount the push the
\* gateway accepts carries the floor of the amount.
C17_PushAmountBounds ==
  pushCall.done =>
    LET whole == FloorAmount(pushCall.amount)
    IN IF whole < 1 \/ whole > 500000
         THEN ~pushCall.result.ok /\ pushCall.result.sentAmount = 0
         ELSE pushCall.accepted =>
                pushCall.result.ok /\ pushCall.result.sentAmount = whole

\* C18: initiate inserts a payment only when the floored amount is within
\* 1..500000, the row and the push carry the floored amount, a request for
\* 500000 gets its row and a request for 500001 is answered 400 without one.
C18_HandlerAmountBounds ==
  \A h \in OfKind("initiate") :
    LET a == handlers[h].amount
        id == handlers[h].paymentId
    IN /\ id # 0 => a.kind = "num" /\ FloorAmount(a) \in 1..500000
       /\ id \in DOMAIN payments => payments[id].amount = FloorAmount(a)
       /\ handlers[h].mpesaResponse # NoMpesaResponse =>
             handlers[h].pushedAmount = FloorAmount(a)
       /\ (/\ a.kind = "num" /\ FloorAmount(a) = 500000
           /\ formatPhoneNumber(handlers[h].phone).ok
           /\ TenantOf(handlers[h].user) # 0
           /\ handlers[h].pc = "done") => id # 0 /\ handlers[h].res.code # 400
       /\ (a.kind = "num" /\ FloorAmount(a) = 500001) =>
             handlers[h].pc = "done" /\ handlers[h].res.code = 400 /\ id = 0

\* a request for 500000.9 has committed a payment of 500000 and a request
\* for 500001 has been refused
C18_Witness ==
  \E a, b \in OfKind("initiate") :
    /\ handlers[a].amount = Num(5000009)
    /\ handlers[a].res.code = 201
    /\ handlers[a].paymentId \in DOMAIN payments
    /\ payments[handlers[a].paymentId].amount = 500000
    /\ handlers[a].pushedAmount = 500000
    /\ handlers[b].amount = Num(5000010)
    /\ handlers[b].res.code = 400

\* a phone as the responses may show it: absent, or 6 digits and '***'
Masked(p) == p = UndefText \/ (Len(p) = 9 /\ SubSeq(p, 7, 9) = Stars)

\* C19: the initiate response and the status response, notes included, show
\* a phone number only in its masked form.
C19_OnlyMaskedPhone ==
  \A h \in HandlerIds :
    /\ (handlers[h].kind = "initiate" /\ handlers[h].res.code = 201)
          => Masked(handlers[h].res.phone)
    /\ (handlers[h].kind = "status" /\ handlers[h].res.code = 200)
          => Masked(handlers[h].res.notes.phoneNumber)

\* C20: a callback without Body.stkCallback makes processCallback throw; the
\* handler issues no lookup and no UPDATE, and no payment changes.
C20_MalformedCallbackTouchesNothing ==
  /\ [](\A h \in OfKind("callback") :
          ~handlers[h].payload.stkCallback =>
            /\ handlers[h].pc = "done"
            /\ handlers[h].paymentStatus = NoStatus
            /\ ~handlers[h].found /\ handlers[h].paymentId = 0
            /\ \A i \in 1..Len(connQueue) : connQueue[i] # h)
  /\ [][(/\ Len(handlers') = Len(handlers) + 1
          /\ handlers'[Len(handlers')].kind = "callback"
          /\ ~handlers'[Len(handlers')].payload.stkCallback)
        => /\ payments' = payments
           /\ resolutions' = resolutions
           /\ connQueue' = connQueue]_vars

\* a callback without Body.stkCallback has been answered while a payment
\* waits for its result
C20_Witness ==
  /\ \E h \in OfKind("callback") :
        ~handlers[h].payload.stkCallback /\ handlers[h].pc = "done"
  /\ \E id \in DOMAIN payments :
        /\ payments[id].payment_status = "pending"
        /\ payments[id].reference_number \in IssuedCheckoutIds

\* C21: in the sandbox a payment that initiate committed becomes 'completed'
\* or 'failed' in the end, and once it has one of the two it keeps it,
\* whatever callbacks and polls arrive.
C21_SettlesOnce ==
  /\ \A id \in 1..MaxInitiate :
        [](( /\ environment = "sandbox"
             /\ \E h \in OfKind("initiate") :
                   Committed(h) /\ handlers[h].paymentId = id)
           => <>(id \in DOMAIN payments /\ Terminal(payments[id])))
  /\ [][\A id \in DOMAIN payments :
          Terminal(payments[id]) =>
            /\ id \in DOMAIN payments'
            /\ payments'[id].payment_status = payments[id].payment_status]_vars

\* C22: a pending payment resolved with a StatusResult ends in the same
\* record (payment_status, reference_number, notes) whether the callback
\* handler or checkAndUpdatePaymentStatus resolved it: the record a path has
\* written is the record the other path writes for the same result.
C22_SameRecordEitherPath ==
  \A id \in DOMAIN resolutions :
    \A i \in DOMAIN resolutions[id] :
      LET e == resolutions[id][i]
      IN e.before.payment_status = "pending" =>
           e.after = IF e.via = "callback"
                       THEN PollUpdate(e.before, e.status, e.before.reference_number)
                       ELSE CallbackUpdate(e.before, e.status)

\* the payments table as committed: without the open transaction's changes
CommittedPayments == IF txOpen THEN txSnapshot ELSE payments

\* the initiate request that inserted payment id
InsertedBy(id) == CHOOSE h \in OfKind("initiate") : handlers[h].paymentId = id

\* C23: a payment row that initiate has inserted is never committed without
\* its reference_number: every committed row is 'pending' with the
\* CheckoutRequestID the gateway returned for it.
C23_CommittedWithReference ==
  \A id \in DOMAIN CommittedPayments :
    /\ CommittedPayments[id].payment_status = "pending"
    /\ CommittedPayments[id].reference_number # NULL
    /\ CommittedPayments[id].reference_number =
         handlers[InsertedBy(id)].mpesaResponse.CheckoutRequestID

\* every initiate request has been answered
AllAnswered == \A h \in OfKind("initiate") : handlers[h].pc = "done"

\* C25: when overlapping initiate requests have been answered, a request
\* whose push failed has left no row, and a request whose push succeeded has
\* its row committed with its CheckoutRequestID.
C25_OwnInsertOnly ==
  AllAnswered =>
    \A f, g \in OfKind("initiate") :
      ( /\ handlers[f].res.code = 500 /\ handlers[f].paymentId # 0
        /\ handlers[g].res.code = 201 )
      => /\ handlers[f].paymentId \notin DOMAIN CommittedPayments
         /\ handlers[g].paymentId \in DOMAIN CommittedPayments
         /\ CommittedPayments[handlers[g].paymentId].reference_number =
              handlers[g].mpesaResponse.CheckoutRequestID

\* callback c has applied its update to a payment and has been acknowledged
AppliedAndAcknowledged(c) ==
  /\ handlers[c].pc = "done"
  /\ handlers[c].found
  /\ ~handlers[c].storeFailed
  /\ handlers[c].res = CallbackResponse
  /\ handlers[c].paymentId \in DOMAIN payments
  /\ Terminal(payments[handlers[c].paymentId])

\* C24: when an initiate request whose push failed rolls back, the update a
\* callback has applied to another payment, and has been acknowledged for,
\* stays applied.
C24_RollbackKeepsCallbackUpdate ==
  [][\A h \in OfKind("initiate") :
       (handlers[h].pc = "rollback" /\ handlers'[h].pc = "done") =>
         \A c \in OfKind("callback") :
           (AppliedAndAcknowledged(c) /\ handlers[c].paymentId # handlers[h].paymentId)
             => /\ handlers[c].paymentId \in DOMAIN payments'
                /\ payments'[handlers[c].paymentId] = payments[handlers[c].paymentId]]_vars

AnswersNow(route) ==
  /\ Len(answers') = Len(answers) + 1
  /\ answers'[Len(answers')].route = route

\* C27: POST /api/auth/register inserts a user row exactly when it answers
\* 201: a request answered with an error status has created no user.
C27_RegisterInsertsIffCreated ==
  [][AnswersNow("register") =>
       (users' # users <=> answers'[Len(answers')].code = 201)]_vars

\* C28: a property that a tenant row still references never has status
\* 'available', whatever add-tenant and remove-tenant requests were made.
C28_ReferencedNotAvailable ==
  \A t \in tenants :
    t.property_id \in DOMAIN properties
      => properties[t.property_id].status # "available"

\* C29: the step that ends a refresh, granted or refused, leaves
\* tokenRefreshInProgress false, and every call that waits on a refresh
\* eventually stops waiting and returns.
C29_WaitersReleased ==
  /\ [][\A c \in CallIds :
          (tokenCalls[c].pc = "refreshing" /\ tokenCalls'[c].pc = "done")
            => ~tokenRefreshInProgress']_vars
  /\ \A c \in 1..MaxTokenCalls :
        [](c \in CallIds /\ tokenCalls[c].pc = "waiting"
             => <>(c \in CallIds /\ tokenCalls[c].pc = "done"))

\* a call that found a refresh in flight has returned after it was refused
C29_Witness ==
  \E c, r \in CallIds :
    /\ tokenCalls[c].inProgressAtCall
    /\ tokenCalls[c].pc = "done"
    /\ tokenCalls[r].threw
    /\ ~tokenRefreshInProgress

\* C30: formatPhoneNumber is idempotent: formatting a number it has
\* returned succeeds and returns the same number.
C30_FormatIdempotent ==
  (phoneCall.againDone /\ phoneCall.result.ok) =>
    /\ phoneCall.again.ok
    /\ phoneCall.again.value = phoneCall.result.value

\* 0712345678 was formatted, and its result was formatted again
C30_Witness ==
  /\ phoneCall.phone = <<0, 7, 1, 2, 3, 4, 5, 6, 7, 8>>
  /\ phoneCall.done /\ phoneCall.result.ok
  /\ phoneCall.againDone
  /\ phoneCall.result.value # phoneCall.phone

TypeOK ==
  /\ environment \in {"sandbox", "production"}
  /\ txOpen \in BOOLEAN
  /\ nextId \in Nat
  /\ \A id \in DOMAIN payments :
        payments[id].payment_status \in AllowedStatuses

====
